---- MODULE Spec2Model ----
(***************************************************************************)
(* A model of yandex_music_tui: the playback queue engine with its         *)
(* asynchronous prefetch (src/src/player.rs, driven by the control loop of *)
(* src/src/main.rs), and the metadata / link-resolution functions of       *)
(* src/src/api.rs.                                                         *)
(*                                                                         *)
(* Rust indices are 0-based and TLA+ sequences 1-based: queue holds the    *)
(* 0-based track indices of the source, queue_position is the source's     *)
(* 0-based cursor; the lookups add 1.                                      *)
(***************************************************************************)
EXTENDS Integers, Sequences, FiniteSets, TLC

\* ------------------------------------------------------------------ bounds

\* Track ids of the library are 1..MaxTracks; a track list holds at most MaxTracks.
MaxTracks == 2
\* The largest attempt budget fetch_track is called with.
MaxAttempts == 4
\* The longest listing liked_tracks answers liked_music_tracks with.
MaxLiked == 3
\* Number of command events the input task sends in one run.
MaxEvents == 2
\* Volume and speed are counted in steps (0.05 and 0.5) away from the sink's
\* initial value; the model keeps them within -MaxSteps..MaxSteps.
MaxSteps == 1

\* ------------------------------------------------------------- player state

VARIABLES
    tracks,                  \* Player.tracks: sequence of track ids
    queue,                   \* Player.queue: sequence of 0-based indices into tracks
    queue_position,          \* Player.queue_position
    music_sink,              \* Player.music_sink: [sources, volume, speed, paused]
    next_track_task_handle,  \* Option<JoinHandle>: None or the task [id, st]
    pc,                      \* where the control loop of main is
    awaited,                 \* the handle taken by a tick and being awaited
    loading,                 \* the id a tick is downloading synchronously (0: none)
    rx,                      \* the mpsc channel: events sent and not yet received
    sent,                    \* number of events the input task has sent
    io_running,              \* the input task has not sent Quit yet
    lastOp,                  \* history: the last step of the control loop, the state it
                             \* found, and the track most recently fed to the sink
    api                      \* the call of a function of api.rs under study

vars == <<tracks, queue, queue_position, music_sink, next_track_task_handle,
          pc, awaited, loading, rx, sent, io_running, lastOp, api>>

\* Option::None of next_track_task_handle, in the shape of a task.
None == [id |-> 0, st |-> "None"]

TrackIds == 1..MaxTracks

RECURSIVE SubSequences(_)
\* The order-preserving sub-lists of a list: what a listing of the library,
\* fetched with omissions and filtered, can be.
SubSequences(s) ==
    IF s = <<>> THEN {<<>>}
    ELSE LET rest == SubSequences(Tail(s))
         IN  rest \cup {<<Head(s)>> \o r : r \in rest}

Library == [i \in 1..MaxTracks |-> i]

\* The track lists the remote service can answer with.
TrackLists == SubSequences(Library)

\* Vec::from_iter(0..tracks.len())
IdentityQueue(n) == [i \in 1..n |-> i - 1]

Bijections(n) == {f \in [1..n -> 1..n] : \A i, j \in 1..n : f[i] = f[j] => i = j}

ShuffledQueuesWithRepetition(q) == [1..Len(q) -> {q[i] : i \in 1..Len(q)}]

\* queue.shuffle(rng): the entries of q in any order.
ShuffledQueues(q) == {[i \in 1..Len(q) |-> q[f[i]]] : f \in Bijections(Len(q))}

\* Whether tracks[queue[queue_position + n]] is an in-range lookup.
InRange(n) ==
    /\ queue_position + n < Len(queue)
    /\ queue[queue_position + n + 1] < Len(tracks)

\* Player::track_after_n (the id of the track it returns); a panic when ~InRange(n).
track_after_n(n) == tracks[queue[queue_position + n + 1] + 1]

\* Player::next_track (the id of the track it returns); a panic when ~InRange(0).
next_track == tracks[queue[queue_position + 1] + 1]

HandleState(h) == h.st

\* What a step records of the state it found; fed, the id of the track most
\* recently fed to the sink (0: none yet), is carried along.
Found(op) == [op |-> op, pos |-> queue_position,
              held |-> HandleState(next_track_task_handle), fed |-> lastOp.fed]

\* Outcomes of download_data: Ok(TrackData), Err(reqwest error), a panic inside
\* (an unwrap in direct_link).
Outcomes == {"Ok", "Err", "Panicked"}

EmptySink == [sources |-> <<>>, volume |-> 0, speed |-> 0, paused |-> FALSE]

\* ----------------------------------------------------------------- init

\* No call of api.rs is under study while the player runs.
NoCall == [fn |-> "none"]

\* init_player: the track list is what liked_music_tracks answered.
Init ==
    /\ api = NoCall
    /\ tracks \in TrackLists
    /\ queue = IdentityQueue(Len(tracks))
    /\ queue_position = 0
    /\ music_sink = EmptySink
    /\ next_track_task_handle = None
    /\ pc = "tick"
    /\ awaited = None
    /\ loading = 0
    /\ rx = <<>>
    /\ sent = 0
    /\ io_running = TRUE
    /\ lastOp = [op |-> "init_player", pos |-> 0, held |-> "None", fed |-> 0]

\* A panic of the main task: the process ends.
Panic(op) ==
    /\ pc' = "panicked"
    /\ lastOp' = Found(op)
    /\ UNCHANGED <<tracks, queue, queue_position, music_sink, next_track_task_handle,
                   awaited, loading, rx, sent, io_running, api>>

\* -------------------------------------------------------- the tick

TickTakeHandleLoadsDirectly ==
    /\ pc = "tick"
    /\ music_sink.sources = <<>>
    /\ next_track_task_handle # None
    /\ loading' = next_track_task_handle.id
    /\ next_track_task_handle' = None
    /\ pc' = "await_download"
    /\ lastOp' = Found("TickTakeHandle")
    /\ UNCHANGED <<tracks, queue, queue_position, music_sink, awaited, rx, sent,
                   io_running, api>>

TickAwaitsWithoutTake ==
    /\ pc = "tick"
    /\ music_sink.sources = <<>>
    /\ next_track_task_handle # None
    /\ awaited' = next_track_task_handle
    /\ pc' = "await_handle"
    /\ lastOp' = Found("TickTakeHandle")
    /\ UNCHANGED <<tracks, queue, queue_position, music_sink, next_track_task_handle,
                   loading, rx, sent, io_running, api>>

\* update_player, sink empty, a handle is held: take() it and await it.
TickTakeHandle ==
    /\ pc = "tick"
    /\ music_sink.sources = <<>>
    /\ next_track_task_handle # None
    /\ awaited' = next_track_task_handle
    /\ next_track_task_handle' = None
    /\ pc' = "await_handle"
    /\ lastOp' = Found("TickTakeHandle")
    /\ UNCHANGED <<tracks, queue, queue_position, music_sink, loading, rx, sent, io_running, api>>

TickLoadDirectlySkips ==
    /\ pc = "tick"
    /\ music_sink.sources = <<>>
    /\ next_track_task_handle = None
    /\ IF InRange(0)
       THEN /\ queue_position' = queue_position + 1
            /\ pc' = "drain"
            /\ lastOp' = Found("TickLoadDirectly")
            /\ UNCHANGED <<tracks, queue, music_sink, next_track_task_handle,
                           awaited, loading, rx, sent, io_running, api>>
       ELSE Panic("TickLoadDirectlyOutOfRange")

\* update_player, sink empty, no handle: download_data(next_track().id) in the tick.
TickLoadDirectly ==
    /\ pc = "tick"
    /\ music_sink.sources = <<>>
    /\ next_track_task_handle = None
    /\ IF InRange(0)
       THEN /\ loading' = next_track
            /\ pc' = "await_download"
            /\ lastOp' = Found("TickLoadDirectly")
            /\ UNCHANGED <<tracks, queue, queue_position, music_sink,
                           next_track_task_handle, awaited, rx, sent, io_running, api>>
       ELSE Panic("TickLoadDirectlyOutOfRange")

TickScheduleForgets ==
    /\ pc = "tick"
    /\ music_sink.sources # <<>>
    /\ next_track_task_handle = None
    /\ IF InRange(0)
       THEN /\ pc' = "drain"
            /\ lastOp' = Found("TickSchedule")
            /\ UNCHANGED <<tracks, queue, queue_position, music_sink,
                           next_track_task_handle, awaited, loading, rx, sent,
                           io_running, api>>
       ELSE Panic("TickScheduleOutOfRange")

\* update_player, sink playing, no handle: spawn download_data(next_track().id).
TickSchedule ==
    /\ pc = "tick"
    /\ music_sink.sources # <<>>
    /\ next_track_task_handle = None
    /\ IF InRange(0)
       THEN /\ next_track_task_handle' = [id |-> next_track, st |-> "InFlight"]
            /\ pc' = "drain"
            /\ lastOp' = Found("TickSchedule")
            /\ UNCHANGED <<tracks, queue, queue_position, music_sink,
                           awaited, loading, rx, sent, io_running, api>>
       ELSE Panic("TickScheduleOutOfRange")

\* update_player, sink playing, a handle is held: nothing to do.
TickIdle ==
    /\ pc = "tick"
    /\ music_sink.sources # <<>>
    /\ next_track_task_handle # None
    /\ pc' = "drain"
    /\ lastOp' = Found("TickIdle")
    /\ UNCHANGED <<tracks, queue, queue_position, music_sink, next_track_task_handle,
                   awaited, loading, rx, sent, io_running, api>>

FeedSkipsOne(id, outcome, decodable, op) ==
    IF outcome = "Ok" /\ InRange(0) /\ decodable
    THEN /\ music_sink' = [music_sink EXCEPT !.sources = Append(@, id)]
         /\ queue_position' = queue_position + 2
         /\ pc' = "drain"
         /\ lastOp' = [Found(op) EXCEPT !.fed = id]
         /\ UNCHANGED <<tracks, queue, next_track_task_handle, rx, sent, io_running, api>>
    ELSE /\ pc' = "panicked"
         /\ lastOp' = Found(op \o (IF outcome = "Ok" THEN "Panicked" ELSE outcome))
         /\ UNCHANGED <<tracks, queue, queue_position, music_sink,
                        next_track_task_handle, rx, sent, io_running, api>>

\* The end of the sink-empty branch of update_player, given the outcome of the
\* resolution and whether the decoder accepts the bytes: unwrap the result, print
\* next_track(), Decoder::new(..).unwrap(), append, advance. Every failure is an
\* unwrap on an error (or an index out of range): a panic of the main task.
Feed(id, outcome, decodable, op) ==
    IF outcome = "Ok" /\ InRange(0) /\ decodable
    THEN /\ music_sink' = [music_sink EXCEPT !.sources = Append(@, id)]
         /\ queue_position' = queue_position + 1
         /\ pc' = "drain"
         /\ lastOp' = [Found(op) EXCEPT !.fed = id]
         /\ UNCHANGED <<tracks, queue, next_track_task_handle, rx, sent, io_running, api>>
    ELSE /\ pc' = "panicked"
         /\ lastOp' = Found(op \o (IF outcome = "Ok" THEN "Panicked" ELSE outcome))
         /\ UNCHANGED <<tracks, queue, queue_position, music_sink,
                        next_track_task_handle, rx, sent, io_running, api>>

\* handle.await returns once the background task has ended.
AwaitHandleDone ==
    /\ pc = "await_handle"
    /\ awaited.st # "InFlight"
    /\ \E decodable \in BOOLEAN :
        Feed(awaited.id, awaited.st, decodable, "FeedFromHandle")
    /\ awaited' = None
    /\ UNCHANGED loading

\* download_data(id).await inside the tick returns.
AwaitDownloadDone ==
    /\ pc = "await_download"
    /\ \E outcome \in Outcomes, decodable \in BOOLEAN :
        Feed(loading, outcome, decodable, "FeedDirect")
    /\ loading' = 0
    /\ UNCHANGED awaited

Tick == TickTakeHandle \/ TickLoadDirectly \/ TickSchedule \/ TickIdle

\* ------------------------------------------------- the environment

\* The spawned download_data task ends, with any outcome.
TaskComplete ==
    /\ pc # "panicked"
    /\ \E outcome \in Outcomes :
        \/ /\ next_track_task_handle # None
           /\ next_track_task_handle.st = "InFlight"
           /\ next_track_task_handle' = [next_track_task_handle EXCEPT !.st = outcome]
           /\ UNCHANGED awaited
        \/ /\ awaited # None
           /\ awaited.st = "InFlight"
           /\ awaited' = [awaited EXCEPT !.st = outcome]
           /\ UNCHANGED next_track_task_handle
    /\ UNCHANGED <<tracks, queue, queue_position, music_sink, pc, loading,
                   rx, sent, io_running, lastOp, api>>

\* The audio output finishes playing the source at the head of the sink.
SinkDrain ==
    /\ pc # "panicked"
    /\ music_sink.sources # <<>>
    /\ ~music_sink.paused
    /\ music_sink' = [music_sink EXCEPT !.sources = Tail(@)]
    /\ UNCHANGED <<tracks, queue, queue_position, next_track_task_handle, pc,
                   awaited, loading, rx, sent, io_running, lastOp, api>>

Steps == (0 - MaxSteps)..MaxSteps

\* The events the input task of main sends. An event is modelled by its kind; the
\* payload of ChangeVolume, SetVolume, ChangeSpeed and SetSpeed is read only by
\* the arm of the match that handles it, and is drawn there.
MainEvents ==
    {"ChangeVolume", "SetVolume", "PrintVolume", "ChangeSpeed", "SetSpeed",
     "PrintSpeed", "TogglePlayback", "NextTrack", "Shuffle", "Quit"}

\* The events of the CLI boundary that reach the operations of player.rs.
PlayerEvents == {"Previous", "LoadPlaylist", "LoadFavorites"}

Events == MainEvents \cup PlayerEvents

\* The input task reads a line and sends its event; after Quit it stops.
Send ==
    /\ pc # "panicked"
    /\ io_running
    /\ sent < MaxEvents
    /\ \E e \in Events :
        /\ rx' = Append(rx, e)
        /\ io_running' = (e # "Quit")
    /\ sent' = sent + 1
    /\ UNCHANGED <<tracks, queue, queue_position, music_sink, next_track_task_handle,
                   pc, awaited, loading, lastOp, api>>

\* ------------------------------------------- the operations of Player

FreshSinkDefaults == EmptySink

\* Sink::try_new, then set_volume and set_speed with the replaced sink's values:
\* a fresh sink is empty and not paused.
FreshSink == [EmptySink EXCEPT !.volume = music_sink.volume, !.speed = music_sink.speed]

\* Player::change_volume
change_volume(delta) ==
    /\ music_sink.volume + delta \in Steps
    /\ music_sink' = [music_sink EXCEPT !.volume = @ + delta]
    /\ UNCHANGED <<tracks, queue, queue_position, next_track_task_handle>>

\* Player::change_speed
change_speed(delta) ==
    /\ music_sink.speed + delta \in Steps
    /\ music_sink' = [music_sink EXCEPT !.speed = @ + delta]
    /\ UNCHANGED <<tracks, queue, queue_position, next_track_task_handle>>

\* Player::toggle_playback
toggle_playback ==
    /\ music_sink' = [music_sink EXCEPT !.paused = ~@]
    /\ UNCHANGED <<tracks, queue, queue_position, next_track_task_handle>>

move_next_advances ==
    /\ music_sink' = FreshSink
    /\ queue_position' = queue_position + 1
    /\ UNCHANGED <<tracks, queue, next_track_task_handle>>

\* Player::move_next
move_next ==
    /\ music_sink' = FreshSink
    /\ UNCHANGED <<tracks, queue, queue_position, next_track_task_handle>>

move_prev_by_one ==
    IF queue_position > 0
    THEN /\ queue_position' = queue_position - 1
         /\ next_track_task_handle' = None
         /\ music_sink' = FreshSink
         /\ UNCHANGED <<tracks, queue>>
    ELSE UNCHANGED <<tracks, queue, queue_position, music_sink, next_track_task_handle>>

\* Player::move_prev
move_prev ==
    IF queue_position > 1
    THEN /\ queue_position' = queue_position - 2
         /\ next_track_task_handle' = None
         /\ music_sink' = FreshSink
         /\ UNCHANGED <<tracks, queue>>
    ELSE UNCHANGED <<tracks, queue, queue_position, music_sink, next_track_task_handle>>

reset_keeps_handle ==
    /\ queue_position' = 0
    /\ UNCHANGED next_track_task_handle

\* Player::reset
reset ==
    /\ queue_position' = 0
    /\ next_track_task_handle' = None

shuffle_tracks_keeps_handle ==
    /\ queue' \in ShuffledQueues(queue)
    /\ queue_position' = 0
    /\ UNCHANGED <<tracks, music_sink, next_track_task_handle>>

\* Player::shuffle_tracks
shuffle_tracks ==
    /\ queue' \in ShuffledQueues(queue)
    /\ reset
    /\ UNCHANGED <<tracks, music_sink>>

\* What tracks_from_playlist or liked_music_tracks answers: a track list or an error.
Answers ==
    {[ok |-> TRUE, tracks |-> l] : l \in TrackLists} \cup {[ok |-> FALSE, tracks |-> <<>>]}

load_into_player_resets_first(answer) ==
    IF ~answer.ok
    THEN /\ reset
         /\ UNCHANGED <<tracks, queue, music_sink>>
    ELSE /\ tracks' = answer.tracks
         /\ reset
         /\ queue' = IdentityQueue(Len(answer.tracks))
         /\ UNCHANGED music_sink

load_into_player_keeps_handle(answer) ==
    IF ~answer.ok
    THEN UNCHANGED <<tracks, queue, queue_position, music_sink, next_track_task_handle>>
    ELSE /\ tracks' = answer.tracks
         /\ queue_position' = 0
         /\ queue' = IdentityQueue(Len(answer.tracks))
         /\ UNCHANGED <<music_sink, next_track_task_handle>>

\* The body of load_playlist_into_player and of load_favorites_into_player, which
\* differ only in the call that fetches the list: on an error `?` returns before
\* any assignment.
load_into_player(answer) ==
    IF ~answer.ok
    THEN UNCHANGED <<tracks, queue, queue_position, music_sink, next_track_task_handle>>
    ELSE /\ tracks' = answer.tracks
         /\ reset
         /\ queue' = IdentityQueue(Len(answer.tracks))
         /\ UNCHANGED music_sink

\* load_playlist_into_player
load_playlist_into_player(answer) == load_into_player(answer)

\* load_favorites_into_player
load_favorites_into_player(answer) == load_into_player(answer)

\* ---------------------------------------------------- the event drain

\* One received event leaves the channel; the loop stays in the drain.
Received(op) ==
    /\ rx' = Tail(rx)
    /\ lastOp' = Found(op)
    /\ UNCHANGED <<awaited, loading, sent, io_running, api>>

DrainLeavesEarly ==
    /\ pc = "drain"
    /\ pc' = "tick"
    /\ lastOp' = Found("DrainEmpty")
    /\ UNCHANGED <<tracks, queue, queue_position, music_sink, next_track_task_handle,
                   awaited, loading, rx, sent, io_running, api>>

\* rx.try_recv() finds the channel empty: the next iteration awaits the tick.
DrainEmpty ==
    /\ pc = "drain"
    /\ rx = <<>>
    /\ pc' = "tick"
    /\ lastOp' = Found("DrainEmpty")
    /\ UNCHANGED <<tracks, queue, queue_position, music_sink, next_track_task_handle,
                   awaited, loading, rx, sent, io_running, api>>

\* rx.try_recv() yields an event of main's match.
DrainMain ==
    /\ pc = "drain"
    /\ rx # <<>>
    /\ Head(rx) \in MainEvents
    /\ LET e == Head(rx) IN
        /\ Received(e)
        /\ pc' = IF e = "Quit" THEN "quit" ELSE "drain"
        /\ CASE e = "ChangeVolume" -> \E d \in {0 - 1, 1} : change_volume(d)
             [] e = "SetVolume" -> \E v \in Steps : change_volume(v - music_sink.volume)
             [] e = "ChangeSpeed" -> \E d \in {0 - 1, 1} : change_speed(d)
             [] e = "SetSpeed" -> \E v \in Steps : change_speed(v - music_sink.speed)
             [] e = "TogglePlayback" -> toggle_playback
             [] e = "NextTrack" -> move_next
             [] e = "Shuffle" -> shuffle_tracks
             [] OTHER -> UNCHANGED <<tracks, queue, queue_position, music_sink,
                                     next_track_task_handle>>

\* The drain yields an event that reaches an operation of player.rs.
DrainPlayer ==
    /\ pc = "drain"
    /\ rx # <<>>
    /\ Head(rx) \in PlayerEvents
    /\ pc' = "drain"
    /\ LET e == Head(rx) IN
        CASE e = "Previous" -> Received("Previous") /\ move_prev
          [] e = "LoadPlaylist" ->
                \E answer \in Answers :
                    /\ Received(IF ~answer.ok THEN "LoadPlaylistErr" ELSE "LoadPlaylistOk")
                    /\ load_playlist_into_player(answer)
          [] e = "LoadFavorites" ->
                \E answer \in Answers :
                    /\ Received(IF ~answer.ok THEN "LoadFavoritesErr" ELSE "LoadFavoritesOk")
                    /\ load_favorites_into_player(answer)

Next ==
    \/ Tick
    \/ AwaitHandleDone
    \/ AwaitDownloadDone
    \/ TaskComplete
    \/ SinkDrain
    \/ Send
    \/ DrainEmpty
    \/ DrainMain
    \/ DrainPlayer

Spec == Init /\ [][Next]_vars

\* --------------------------------------------- runs of skips on a long list

\* A list of liked music tracks long enough to step back twice.
LongList == [i \in 1..(MaxTracks + 2) |-> i]

\* init_player with LongList as the answer of liked_music_tracks.
InitLong ==
    /\ api = NoCall
    /\ tracks = LongList
    /\ queue = IdentityQueue(Len(tracks))
    /\ queue_position = 0
    /\ music_sink = EmptySink
    /\ next_track_task_handle = None
    /\ pc = "tick"
    /\ awaited = None
    /\ loading = 0
    /\ rx = <<>>
    /\ sent = 0
    /\ io_running = TRUE
    /\ lastOp = [op |-> "init_player", pos |-> 0, held |-> "None", fed |-> 0]

\* The manual skips.
SkipEvents == {"NextTrack", "Previous"}

\* The input task, of a user who only skips.
SendSkip ==
    /\ pc # "panicked"
    /\ io_running
    /\ sent < MaxEvents
    /\ \E e \in SkipEvents :
        /\ rx' = Append(rx, e)
        /\ io_running' = (e # "Quit")
    /\ sent' = sent + 1
    /\ UNCHANGED <<tracks, queue, queue_position, music_sink, next_track_task_handle,
                   pc, awaited, loading, lastOp, api>>

NextSkip ==
    \/ Tick
    \/ AwaitHandleDone
    \/ AwaitDownloadDone
    \/ TaskComplete
    \/ SinkDrain
    \/ SendSkip
    \/ DrainEmpty
    \/ DrainMain
    \/ DrainPlayer

SpecSkip == InitLong /\ [][NextSkip]_vars

\* ------------------------------------------- runs without command events

NextLive ==
    \/ Tick
    \/ AwaitHandleDone
    \/ AwaitDownloadDone
    \/ TaskComplete
    \/ SinkDrain
    \/ DrainEmpty

\* The steps of main's loop.
ControlLoop == Tick \/ AwaitHandleDone \/ AwaitDownloadDone \/ DrainEmpty

\* The input task sends nothing. The interval of the metronom fires and every
\* await of the loop returns; the runtime runs the spawned task to its end; the
\* audio output plays what the sink holds.
InitLive == Init \/ InitLong

SpecLive ==
    /\ InitLive
    /\ [][NextLive]_vars
    /\ WF_vars(ControlLoop)
    /\ WF_vars(TaskComplete)
    /\ WF_vars(SinkDrain)

\* ------------------------------------------------------ api.rs: fetch_track

playerVars == <<tracks, queue, queue_position, music_sink, next_track_task_handle,
                pc, awaited, loading, rx, sent, io_running, lastOp>>

\* The player is not running while a function of api.rs is studied on its own.
PlayerOff ==
    /\ tracks = <<>>
    /\ queue = <<>>
    /\ queue_position = 0
    /\ music_sink = EmptySink
    /\ next_track_task_handle = None
    /\ pc = "off"
    /\ awaited = None
    /\ loading = 0
    /\ rx = <<>>
    /\ sent = 0
    /\ io_running = FALSE
    /\ lastOp = [op |-> "off", pos |-> 0, held |-> "None", fed |-> 0]

\* attempts: Option<usize>
AttemptOptions ==
    {[some |-> FALSE, n |-> 0]} \cup {[some |-> TRUE, n |-> n] : n \in 0..MaxAttempts}

\* attempts.unwrap_or(1)
unwrap_or_1(attempts) == IF attempts.some THEN attempts.n ELSE 1

\* What one send().await of fetch_track can come to: a transport error; a response
\* whose body parses and holds the track; a response whose body does not parse
\* (json().await.unwrap() panics); a response with an empty result list
\* (next().unwrap() panics).
SendOutcomes == {"SendErr", "Ok", "BadBody", "EmptyResult"}

NoResult == [ok |-> FALSE, track |-> 0, error |-> 0]

\* fetch_track has been called with (track_id, attempts).
FetchCall(track_id, attempts) ==
    [fn |-> "fetch_track", track_id |-> track_id, attempts |-> attempts,
     pc |-> "called", left |-> 0, error |-> 0, sends |-> 0, log |-> <<>>,
     result |-> NoResult]

InitFetch ==
    /\ PlayerOff
    /\ \E track_id \in TrackIds, attempts \in AttemptOptions :
         api = FetchCall(track_id, attempts)

LoopContinuesOnZero(left) == left >= 0

\* while left > 0
LoopContinues(left) == left > 0

\* The test of the while loop with `left` and `error` as given, and what follows
\* when it fails: return Err(error.unwrap()), a panic when error is None.
LoopTest(call, left, error) ==
    IF LoopContinues(left)
    THEN [call EXCEPT !.pc = "send", !.left = left, !.error = error]
    ELSE IF error = 0
         THEN [call EXCEPT !.pc = "panicked", !.left = left, !.error = error]
         ELSE [call EXCEPT !.pc = "returned", !.left = left, !.error = error,
                           !.result = [ok |-> FALSE, track |-> 0, error |-> error]]

\* let mut left = attempts.unwrap_or(1); let mut error = None; the first loop test.
FetchEnter ==
    /\ api.pc = "called"
    /\ api' = LoopTest(api, unwrap_or_1(api.attempts), 0)
    /\ UNCHANGED playerVars

\* One iteration of the loop of a call: send().await came to o, and the arm of the
\* match it selects. The error kept is identified by the number of the attempt
\* that produced it.
Sent(call, o) ==
    LET sentCall == [call EXCEPT !.sends = @ + 1, !.log = Append(@, o)] IN
    CASE o = "Ok" ->
           [sentCall EXCEPT !.pc = "returned",
               !.result = [ok |-> TRUE, track |-> call.track_id, error |-> 0]]
      [] o = "SendErr" ->
           LoopTest(sentCall, call.left - 1, sentCall.sends)
      [] OTHER -> [sentCall EXCEPT !.pc = "panicked"]

\* One iteration of fetch_track.
FetchSend ==
    /\ api.pc = "send"
    /\ \E o \in SendOutcomes : api' = Sent(api, o)
    /\ UNCHANGED playerVars

NextFetch == FetchEnter \/ FetchSend

SpecFetch == InitFetch /\ [][NextFetch]_vars

\* ----------------------------------------------- api.rs: liked_music_tracks

\* Track.albums, by the meta_type of each album: none, one, or two of
\* different types in either order.
AlbumLists ==
    {<<>>, <<"music">>, <<"podcast">>, <<"music", "podcast">>, <<"podcast", "music">>}

\* The listings liked_tracks can answer with: the track at place i has id i.
LikedListings ==
    UNION {{[i \in 1..n |-> [id |-> i, albums |-> al[i]]] : al \in [1..n -> AlbumLists]} :
              n \in 0..MaxLiked}

\* What liked_tracks(uid, client).await comes to.
LikedAnswers ==
    {[ok |-> TRUE, tracks |-> l] : l \in LikedListings} \cup {[ok |-> FALSE, tracks |-> <<>>]}

InitFilter ==
    /\ PlayerOff
    /\ \E liked \in LikedAnswers :
         api = [fn |-> "liked_music_tracks", liked |-> liked, pc |-> "called",
                result |-> [ok |-> FALSE, tracks |-> <<>>]]

IsMusicByLastAlbum(track) == track.albums[Len(track.albums)] = "music"

\* The predicate of the filter: track.albums[0].meta_type == AlbumType::Music.
\* The index is out of range for a track without albums.
IsMusic(track) == track.albums[1] = "music"

RECURSIVE Filter(_)
\* into_iter().filter(..).collect(): the tracks the predicate accepts, in order.
Filter(ts) ==
    IF ts = <<>> THEN <<>>
    ELSE IF IsMusic(Head(ts)) THEN <<Head(ts)>> \o Filter(Tail(ts))
         ELSE Filter(Tail(ts))

\* liked_music_tracks: `?` hands on an error of liked_tracks; the filter indexes
\* albums[0] of every track, a panic at a track that has none.
LikedMusicTracks ==
    /\ api.pc = "called"
    /\ api' =
        IF ~api.liked.ok
        THEN [api EXCEPT !.pc = "returned"]
        ELSE IF \E i \in 1..Len(api.liked.tracks) : api.liked.tracks[i].albums = <<>>
             THEN [api EXCEPT !.pc = "panicked"]
             ELSE [api EXCEPT !.pc = "returned",
                              !.result = [ok |-> TRUE, tracks |-> Filter(api.liked.tracks)]]
    /\ UNCHANGED playerVars

NextFilter == LikedMusicTracks

SpecFilter == InitFilter /\ [][NextFilter]_vars

\* ------------------------------------------------------ api.rs: liked_tracks

\* What liked_tracks_infos answers: an error, or a listing of track ids (the
\* track at place i has id i).
LikedInfos ==
    {[ok |-> TRUE, ids |-> [i \in 1..n |-> i]] : n \in 0..MaxLiked}
        \cup {[ok |-> FALSE, ids |-> <<>>]}

\* liked_tracks has been called. fetches are the futures handed to join_all, done
\* the places of those that have completed, in the order they completed.
InitLiked ==
    /\ PlayerOff
    /\ \E infos \in LikedInfos :
         api = [fn |-> "liked_tracks", infos |-> infos, pc |-> "called",
                fetches |-> <<>>, done |-> <<>>,
                result |-> [ok |-> FALSE, tracks |-> <<>>]]

\* `?` hands on an error of liked_tracks_infos; otherwise one future
\* fetch_track(info.id, client, Some(2)) per entry, each run up to its first send.
LikedEnter ==
    /\ api.fn = "liked_tracks"
    /\ api.pc = "called"
    /\ api' =
        IF ~api.infos.ok
        THEN [api EXCEPT !.pc = "returned"]
        ELSE [api EXCEPT !.pc = "joining",
                 !.fetches = [i \in 1..Len(api.infos.ids) |->
                                 LoopTest(FetchCall(api.infos.ids[i], [some |-> TRUE, n |-> 2]),
                                          2, 0)]]
    /\ UNCHANGED playerVars

\* join_all polls one of the pending futures: its send() completes. A future that
\* panics takes liked_tracks with it.
LikedPoll ==
    /\ api.fn = "liked_tracks"
    /\ api.pc = "joining"
    /\ \E i \in 1..Len(api.fetches), o \in SendOutcomes :
        /\ api.fetches[i].pc = "send"
        /\ LET call == Sent(api.fetches[i], o) IN
           api' = [api EXCEPT
                     !.fetches[i] = call,
                     !.done = IF call.pc = "returned" THEN Append(@, i) ELSE @,
                     !.pc = IF call.pc = "panicked" THEN "panicked" ELSE @]
    /\ UNCHANGED playerVars

RECURSIVE OkTracks(_, _)
\* into_iter().filter_map(|track_res| track_res.ok()).collect() over the results
\* of the futures at the places `order`.
OkTracks(fetches, order) ==
    IF order = <<>> THEN <<>>
    ELSE LET r == fetches[Head(order)].result
         IN  (IF r.ok THEN <<r.track>> ELSE <<>>) \o OkTracks(fetches, Tail(order))

JoinedByCompletion(fetches, done) == OkTracks(fetches, done)

\* join_all(..).await: the results in the order of the futures it was given,
\* whatever the order they completed in.
Joined(fetches, done) == OkTracks(fetches, [i \in 1..Len(fetches) |-> i])

\* Every future has completed: liked_tracks returns Ok of the collected tracks.
LikedCollect ==
    /\ api.fn = "liked_tracks"
    /\ api.pc = "joining"
    /\ \A i \in 1..Len(api.fetches) : api.fetches[i].pc = "returned"
    /\ api' = [api EXCEPT !.pc = "returned",
                  !.result = [ok |-> TRUE, tracks |-> Joined(api.fetches, api.done)]]
    /\ UNCHANGED playerVars

NextLiked == LikedEnter \/ LikedPoll \/ LikedCollect

SpecLiked == InitLiked /\ [][NextLiked]_vars

\* ------------------------------------------------------ api.rs: direct_link

\* The ASCII characters the model's strings are made of, in runs of consecutive
\* codes: "-" is 45, "A" is 65, "_" is 95, "a" is 97.
AsciiRuns ==
    <<[first |-> 45, chars |-> "-./0123456789"],
      [first |-> 65, chars |-> "ABCDEFGHIJKLMNOPQRSTUVWXYZ"],
      [first |-> 95, chars |-> "_"],
      [first |-> 97, chars |-> "abcdefghijklmnopqrstuvwxyz"]>>

\* The code of a one-character string.
Code(c) ==
    LET r == CHOOSE r \in 1..Len(AsciiRuns) :
                 \E i \in 1..Len(AsciiRuns[r].chars) : SubSeq(AsciiRuns[r].chars, i, i) = c
        i == CHOOSE i \in 1..Len(AsciiRuns[r].chars) : SubSeq(AsciiRuns[r].chars, i, i) = c
    IN  AsciiRuns[r].first + i - 1

\* str::as_bytes of an ASCII string.
as_bytes(str) == [i \in 1..Len(str) |-> Code(SubSeq(str, i, i))]

RECURSIVE And16(_, _)
\* Bitwise and of two 16-bit numbers.
And16(a, b) ==
    IF a = 0 \/ b = 0 THEN 0
    ELSE ((a % 2) * (b % 2)) + (2 * And16(a \div 2, b \div 2))

Xor16(a, b) == a + b - (2 * And16(a, b))
Or16(a, b) == a + b - And16(a, b)
Not16(a) == 65535 - a

\* A 32-bit word is the pair <<high half, low half>> of its 16-bit halves.
WAnd(v, w) == <<And16(v[1], w[1]), And16(v[2], w[2])>>
WOr(v, w) == <<Or16(v[1], w[1]), Or16(v[2], w[2])>>
WXor(v, w) == <<Xor16(v[1], w[1]), Xor16(v[2], w[2])>>
WNot(v) == <<Not16(v[1]), Not16(v[2])>>

\* Addition modulo 2^32.
WAdd(v, w) ==
    LET lo == v[2] + w[2]
    IN  <<(v[1] + w[1] + (lo \div 65536)) % 65536, lo % 65536>>

RECURSIVE TwoTo(_)
TwoTo(n) == IF n = 0 THEN 1 ELSE 2 * TwoTo(n - 1)

\* Rotation to the left by n bits, 0 < n < 32.
WRotl(v, n) ==
    LET w == IF n >= 16 THEN <<v[2], v[1]>> ELSE v
        k == n % 16
        p == TwoTo(k)
        q == TwoTo(16 - k)
    IN  IF k = 0 THEN w
        ELSE <<((w[1] * p) % 65536) + (w[2] \div q), ((w[2] * p) % 65536) + (w[1] \div q)>>

\* floor(2^32 * abs(sin(i))) for i = 1..64.
Md5K ==
   <<
      <<55146, 42104>>, <<59591, 46934>>, <<9248, 28891>>, <<49597, 52974>>,
      <<62844, 4015>>, <<18311, 50730>>, <<43056, 17939>>, <<64838, 38145>>,
      <<27008, 39128>>, <<35652, 63407>>, <<65535, 23473>>, <<35164, 55230>>,
      <<27536, 4386>>, <<64920, 29075>>, <<42617, 17294>>, <<18868, 2081>>,
      <<63006, 9570>>, <<49216, 45888>>, <<9822, 23121>>, <<59830, 51114>>,
      <<54831, 4189>>, <<580, 5203>>, <<55457, 59009>>, <<59347, 64456>>,
      <<8673, 52710>>, <<49975, 2006>>, <<62677, 3463>>, <<17754, 5357>>,
      <<43491, 59653>>, <<64751, 41976>>, <<26479, 729>>, <<36138, 19594>>,
      <<65530, 14658>>, <<34673, 63105>>, <<28061, 24866>>, <<64997, 14348>>,
      <<42174, 59972>>, <<19422, 53161>>, <<63163, 19296>>, <<48831, 48240>>,
      <<10395, 32454>>, <<60065, 10234>>, <<54511, 12421>>, <<1160, 7429>>,
      <<55764, 53305>>, <<59099, 39397>>, <<8098, 31992>>, <<50348, 22117>>,
      <<62505, 8772>>, <<17194, 65431>>, <<43924, 9127>>, <<64659, 41017>>,
      <<25947, 22979>>, <<36620, 52370>>, <<65519, 62589>>, <<34180, 24017>>,
      <<28584, 32335>>, <<65068, 59104>>, <<41729, 17172>>, <<19976, 4513>>,
      <<63315, 32386>>, <<48442, 62005>>, <<10967, 53947>>, <<60294, 54161>>
   >>

\* The per-round shift amounts.
Md5S == <<7, 12, 17, 22, 7, 12, 17, 22, 7, 12, 17, 22, 7, 12, 17, 22, 5, 9, 14, 20, 5, 9, 14, 20, 5, 9, 14, 20, 5, 9, 14, 20, 4, 11, 16, 23, 4, 11, 16, 23, 4, 11, 16, 23, 4, 11, 16, 23, 6, 10, 15, 21, 6, 10, 15, 21, 6, 10, 15, 21, 6, 10, 15, 21>>

\* Padding: the byte 128, zeros up to 56 modulo 64, the bit length on 8 bytes,
\* least significant first (messages here are shorter than 8192 bytes).
Md5Pad(bytes) ==
    LET n == Len(bytes)
        zeros == (55 - n) % 64
        bits == 8 * n
    IN  bytes \o <<128>> \o [i \in 1..zeros |-> 0]
              \o <<bits % 256, (bits \div 256) % 256, bits \div 65536, 0, 0, 0, 0, 0>>

\* The j-th (from 0) little-endian word of the block that starts at byte `at`.
Md5Word(msg, at, j) ==
    <<(msg[at + (4 * j) + 3] * 256) + msg[at + (4 * j) + 2],
      (msg[at + (4 * j) + 1] * 256) + msg[at + (4 * j)]>>

\* Round i (from 0) on the state st = <<A, B, C, D>> for the block at `at`.
Md5Round(msg, at, st, i) ==
    LET a == st[1]
        b == st[2]
        c == st[3]
        d == st[4]
        f == CASE i < 16 -> WOr(WAnd(b, c), WAnd(WNot(b), d))
               [] i < 32 -> WOr(WAnd(d, b), WAnd(WNot(d), c))
               [] i < 48 -> WXor(b, WXor(c, d))
               [] OTHER -> WXor(c, WOr(b, WNot(d)))
        g == CASE i < 16 -> i
               [] i < 32 -> ((5 * i) + 1) % 16
               [] i < 48 -> ((3 * i) + 5) % 16
               [] OTHER -> (7 * i) % 16
        sum == WAdd(WAdd(f, a), WAdd(Md5K[i + 1], Md5Word(msg, at, g)))
    IN  <<d, WAdd(b, WRotl(sum, Md5S[i + 1])), b, c>>

RECURSIVE Md5Rounds(_, _, _, _, _)
\* Rounds lo..hi-1 on the block at `at`, from the state st. The first half is
\* computed to a value before the second half starts from it.
Md5Rounds(msg, at, st, lo, hi) ==
    IF hi = lo + 1 THEN Md5Round(msg, at, st, lo)
    ELSE LET mid == (lo + hi) \div 2
             half == Md5Rounds(msg, at, st, lo, mid)
         IN  IF Len(half) = 4 THEN Md5Rounds(msg, at, half, mid, hi) ELSE half

RECURSIVE Md5Blocks(_, _, _)
Md5Blocks(msg, at, st) ==
    IF at > Len(msg) THEN st
    ELSE LET r == Md5Rounds(msg, at, st, 0, 64)
         IN  Md5Blocks(msg, at + 64,
                       <<WAdd(st[1], r[1]), WAdd(st[2], r[2]),
                         WAdd(st[3], r[3]), WAdd(st[4], r[4])>>)

\* The bytes of a word, least significant first.
WBytes(w) == <<w[2] % 256, w[2] \div 256, w[1] % 256, w[1] \div 256>>

\* md5::compute: the 16 bytes of the digest.
md5_compute(bytes) ==
    LET msg == Md5Pad(bytes)
        st == Md5Blocks(msg, 1,
                        <<(<<26437, 8961>>), (<<61389, 43913>>),
                          (<<39098, 56574>>), (<<4146, 21622>>)>>)
    IN  WBytes(st[1]) \o WBytes(st[2]) \o WBytes(st[3]) \o WBytes(st[4])

HexDigits == "0123456789abcdef"

RECURSIVE hex_encode(_)
\* hex::encode: two lowercase hexadecimal digits per byte.
hex_encode(bytes) ==
    IF bytes = <<>> THEN ""
    ELSE SubSeq(HexDigits, (Head(bytes) \div 16) + 1, (Head(bytes) \div 16) + 1)
         \o SubSeq(HexDigits, (Head(bytes) % 16) + 1, (Head(bytes) % 16) + 1)
         \o hex_encode(Tail(bytes))

\* The fixed prefix of the signed string.
SECRET == "XGRlBW9FXlekgbPrRHuSiA"

\* An Option<String> is a sequence of no or one string; unwrap() is Head, a
\* panic on the empty one. get_child(..).unwrap().get_text().unwrap() of a page
\* yields the text of the element, and panics when the element or its text is
\* missing.
HostFields == {<<>>, <<"h">>, <<"s1.cdn">>}
PathFields == {<<>>, <<"/p">>, <<"/get/a.mp3">>, <<"p">>}
SFields == {<<>>, <<"sval">>, <<"0f">>}
TsFields == {<<>>, <<"t">>, <<"5f1">>}

\* How fetching and parsing the signing page ends: the bytes arrive and parse;
\* send() fails; bytes() fails; the bytes are not XML.
PageFetches == {"Ok", "SendErr", "BytesErr", "Malformed"}

InitLink ==
    /\ PlayerOff
    /\ \E fetch \in PageFetches, host \in HostFields, path \in PathFields,
          s \in SFields, ts \in TsFields :
         api = [fn |-> "direct_link", fetch |-> fetch, host |-> host, path |-> path,
                s |-> s, ts |-> ts, pc |-> "called",
                result |-> [ok |-> FALSE, url |-> ""]]

RECURSIVE format(_, _)
\* format!: each "{}" of the template is replaced by the next argument.
format(template, args) ==
    IF template = "" THEN ""
    ELSE IF Len(template) >= 2 /\ SubSeq(template, 1, 2) = "{}"
         THEN Head(args) \o format(SubSeq(template, 3, Len(template)), Tail(args))
         ELSE SubSeq(template, 1, 1) \o format(Tail(template), args)

PathWhole(path) == path

\* &path[1..] (the strings of the model are ASCII: one byte per character)
PathFrom1(path) == SubSeq(path, 2, Len(path))

\* hex::encode(md5::compute((SECRET + &path[1..] + &s).as_bytes()))
Sign(path, s) == hex_encode(md5_compute(as_bytes(SECRET \o PathFrom1(path) \o s)))

\* direct_link: `?` hands on a transport error; every unwrap on a missing piece
\* of the page is a panic; otherwise the signed URL.
DirectLink ==
    /\ api.pc = "called"
    /\ api' =
        IF api.fetch \in {"SendErr", "BytesErr"}
        THEN [api EXCEPT !.pc = "returned"]
        ELSE IF api.fetch = "Malformed"
                \/ <<>> \in {api.host, api.path, api.s, api.ts}
             THEN [api EXCEPT !.pc = "panicked"]
             ELSE LET host == Head(api.host)
                      path == Head(api.path)
                      s == Head(api.s)
                      ts == Head(api.ts)
                      sign == Sign(path, s)
                  IN  [api EXCEPT !.pc = "returned",
                          !.result = [ok |-> TRUE,
                                      url |-> format("https://{}/get-mp3/{}/{}{}",
                                                     <<host, sign, ts, path>>)]]
    /\ UNCHANGED playerVars

NextLink == DirectLink

SpecLink == InitLink /\ [][NextLink]_vars

\* ------------------------------------------------------------ the claims

\* The steps of the control loop, recognised in the pair of states of a step.
TickStep == pc \in {"tick", "await_handle", "await_download"} /\ pc' # pc

CommandStep == pc = "drain" /\ rx # <<>> /\ rx' = Tail(rx)

ReceivedStep(e) == CommandStep /\ Head(rx) = e

TakeStep == pc = "tick" /\ pc' # pc /\ music_sink.sources = <<>>

\* C1: in every state the queue is a permutation of the indices 0..len(tracks)-1:
\* as long as the track list, every index present exactly once (so a shuffle keeps
\* the length and the multiset of indices).
C1_QueueIsPermutation ==
    /\ Len(queue) = Len(tracks)
    /\ \A k \in 0..(Len(tracks) - 1) :
         Cardinality({i \in 1..Len(queue) : queue[i] = k}) = 1

\* A shuffle has run and left the queue in another order than it was built in.
C1_Witness ==
    /\ lastOp.op = "Shuffle"
    /\ Len(queue) >= 2
    /\ queue # IdentityQueue(Len(queue))

\* C2: between two ticks of the control loop the cursor is a valid index of the
\* queue: 0 <= queue_position < len(queue).
C2_PositionInRange ==
    pc \in {"tick", "drain"} => (0 <= queue_position /\ queue_position < Len(queue))

\* C3: after shuffle_tracks, and after a successful load_playlist_into_player or
\* load_favorites_into_player, queue_position is 0 and no prefetch handle is held.
C3_NewOrderResets ==
    lastOp.op \in {"Shuffle", "LoadPlaylistOk", "LoadFavoritesOk"}
        => (queue_position = 0 /\ next_track_task_handle = None)

\* A new play order was installed while the cursor was past the start and a
\* prefetch handle was held.
C3_Witness ==
    /\ lastOp.op \in {"Shuffle", "LoadPlaylistOk", "LoadFavoritesOk"}
    /\ lastOp.pos > 0
    /\ lastOp.held \in {"InFlight", "Ok", "Err", "Panicked"}

\* C4: move_prev takes exactly 2 off queue_position when it is at least 2, and
\* changes nothing (position, queue, handle, sink) when it is 0 or 1.
C4_MovePrev ==
    [][ReceivedStep("Previous") =>
          IF queue_position >= 2
          THEN queue_position' = queue_position - 2
          ELSE UNCHANGED <<queue_position, queue, next_track_task_handle, music_sink>>]_vars

\* Previous was applied at a position of 2 or more.
C4_Witness ==
    /\ lastOp.op = "Previous"
    /\ lastOp.pos >= 2
    /\ queue_position = lastOp.pos - 2

\* C5: a step of the tick moves queue_position only by feeding: it adds exactly 1
\* when it appends a blob to the (empty) sink, and leaves the position alone
\* otherwise, in particular whenever the tick found the sink non-empty.
C5_TickAdvancesByFeeding ==
    [][TickStep =>
          LET fed == music_sink'.sources # music_sink.sources IN
          /\ fed => (music_sink.sources = <<>> /\ queue_position' = queue_position + 1)
          /\ ~fed => queue_position' = queue_position
          /\ (pc = "tick" /\ music_sink.sources # <<>>) => (~fed /\ pc' # "await_download")]_vars

\* A tick has fed a track and the cursor moved on by one.
C5_Witness ==
    /\ lastOp.op \in {"FeedDirect", "FeedFromHandle"}
    /\ music_sink.sources # <<>>
    /\ queue_position = lastOp.pos + 1

\* C6: a prefetch handle stays held, for the same track, through every step that
\* applies no command; a tick that finds the sink empty and a handle held awaits
\* that handle and starts no synchronous download_data; and the blob it then
\* feeds is the one of the awaited task.
C6_PrefetchIsConsumed ==
    [][/\ (next_track_task_handle # None /\ ~CommandStep /\ ~TakeStep)
            => (next_track_task_handle' # None
                /\ next_track_task_handle'.id = next_track_task_handle.id)
       /\ (TakeStep /\ next_track_task_handle # None)
            => (pc' = "await_handle" /\ awaited' = next_track_task_handle /\ loading' = 0)
       /\ (pc = "await_handle" /\ pc' = "drain")
            => (awaited.st = "Ok"
                /\ music_sink'.sources = Append(music_sink.sources, awaited.id)
                /\ loading' = 0)]_vars

\* A tick found the sink empty and took a handle whose task had already ended well.
C6_Witness ==
    /\ pc = "await_handle"
    /\ lastOp.op = "TickTakeHandle"
    /\ lastOp.held = "Ok"
    /\ awaited.st = "Ok"

\* C10: when the synchronous resolution of the current track fails in a tick, the
\* engine skips to the next queue entry and the control loop keeps running.
C10_FailedResolutionSkips ==
    lastOp.op = "FeedDirectErr" => (pc = "drain" /\ queue_position = lastOp.pos + 1)

\* n transport failures in a row.
Failures(n) == [i \in 1..n |-> "SendErr"]

\* C7: with an attempt budget N >= 1, fetch_track never sends more than N times
\* and never sends again after a send that succeeded; after N-1 transport
\* failures and a success it has returned the track with exactly N sends; after N
\* transport failures it has returned the transport error (the last one) with
\* exactly N sends.
C7_RetryLaw ==
    LET N == unwrap_or_1(api.attempts) IN
    N >= 1 =>
        /\ api.sends <= N
        /\ api.sends = Len(api.log)
        /\ \A i \in 1..(Len(api.log) - 1) : api.log[i] = "SendErr"
        /\ api.log = Failures(N - 1) \o <<"Ok">>
             => /\ api.pc = "returned"
                /\ api.result = [ok |-> TRUE, track |-> api.track_id, error |-> 0]
                /\ api.sends = N
        /\ api.log = Failures(N)
             => /\ api.pc = "returned"
                /\ api.result = [ok |-> FALSE, track |-> 0, error |-> N]
                /\ api.sends = N

\* fetch_track returned the track on the last attempt of a budget of 2 or more.
C7_Witness ==
    /\ api.fn = "fetch_track"
    /\ api.pc = "returned"
    /\ api.result.ok
    /\ unwrap_or_1(api.attempts) >= 2
    /\ api.sends = unwrap_or_1(api.attempts)

\* C8: when liked_music_tracks returns a list, it holds exactly the tracks of
\* liked_tracks whose first album is of type music, each once, in the order of
\* the listing; so for first albums [music, podcast, music] it is the first and
\* the third track.
C8_FilterLaw ==
    (api.pc = "returned" /\ api.liked.ok) =>
        LET in == api.liked.tracks
            out == api.result.tracks
        IN  /\ api.result.ok
            /\ \A i \in 1..Len(out) :
                 /\ out[i].id \in 1..Len(in)
                 /\ out[i] = in[out[i].id]
                 /\ Head(out[i].albums) = "music"
            /\ \A j \in 1..Len(in) :
                 Head(in[j].albums) = "music" => \E i \in 1..Len(out) : out[i] = in[j]
            /\ \A i, k \in 1..Len(out) : i < k => out[i].id < out[k].id
            /\ (Len(in) = 3 /\ Head(in[1].albums) = "music"
                  /\ Head(in[2].albums) = "podcast" /\ Head(in[3].albums) = "music")
                 => out = <<in[1], in[3]>>

\* liked_music_tracks returned for a listing of a music, a podcast and a music
\* track, the last of which also sits on a podcast album.
C8_Witness ==
    /\ api.fn = "liked_music_tracks"
    /\ api.pc = "returned"
    /\ api.liked.ok
    /\ Len(api.liked.tracks) = 3
    /\ api.liked.tracks[1].albums = <<"music">>
    /\ api.liked.tracks[2].albums = <<"podcast", "music">>
    /\ api.liked.tracks[3].albums = <<"music", "podcast">>
    /\ Len(api.result.tracks) = 2

\* The MD5 digests, in hexadecimal, of SECRET followed by the path without its
\* first character and by s, from a reference implementation of MD5.
ReferenceSigns ==
    {[path |-> "/p", s |-> "sval", sign |-> "ec18c22213b779cb262ef7d7077f6f78"],
     [path |-> "/p", s |-> "0f", sign |-> "63578db9903381758bb371823df44bda"],
     [path |-> "/get/a.mp3", s |-> "sval", sign |-> "b6bfe11ee7abab966eabaef8cf345670"],
     [path |-> "/get/a.mp3", s |-> "0f", sign |-> "e503d38545ed54ce528cdcc370d9c7b9"],
     [path |-> "p", s |-> "sval", sign |-> "f1eb2acc5a38b10cae06d88651f664ce"],
     [path |-> "p", s |-> "0f", sign |-> "9f878e4985694e679d37121c59428726"]}

\* C9: the URL direct_link returns is https://{host}/get-mp3/{signature}/{ts}{path}
\* with signature the hexadecimal MD5 digest of SECRET, the path without its
\* first character, and s; for host h, path /p, s sval, ts t it is
\* https://h/get-mp3/ec18c22213b779cb262ef7d7077f6f78/t/p.
C9_SignedUrl ==
    (api.pc = "returned" /\ api.result.ok) =>
        LET host == Head(api.host)
            path == Head(api.path)
            s == Head(api.s)
            ts == Head(api.ts)
            ref == CHOOSE r \in ReferenceSigns : r.path = path /\ r.s = s
        IN  /\ api.result.url = "https://" \o host \o "/get-mp3/" \o ref.sign
                                    \o "/" \o ts \o path
            /\ ref.sign = hex_encode(md5_compute(as_bytes(SECRET \o Tail(path) \o s)))
            /\ (host = "h" /\ path = "/p" /\ s = "sval" /\ ts = "t")
                 => api.result.url = "https://h/get-mp3/ec18c22213b779cb262ef7d7077f6f78/t/p"

\* direct_link returned the URL for the page {host: h, path: /p, s: sval, ts: t}.
C9_Witness ==
    /\ api.fn = "direct_link"
    /\ api.pc = "returned"
    /\ api.result.ok
    /\ api.host = <<"h">>
    /\ api.path = <<"/p">>
    /\ api.s = <<"sval">>
    /\ api.ts = <<"t">>

\* C11: when the prefetch task a tick awaits has failed (it returned an error or
\* it aborted), the tick leaves the cursor where it was, holds no handle, and the
\* control loop goes on to the drain and the next tick.
C11_FailedPrefetchFallsBack ==
    lastOp.op \in {"FeedFromHandleErr", "FeedFromHandlePanicked"}
        => (pc \in {"drain", "tick"} /\ queue_position = lastOp.pos
            /\ next_track_task_handle = None)

\* The step recorded as op applies the event e.
Applies(e, op) == op \in {e, e \o "Ok", e \o "Err"}

\* The tick of the control loop is in progress.
InTick == pc \in {"tick", "await_handle", "await_download"}

\* C12: the control loop alternates: a tick makes one transition (it feeds and
\* advances, or starts a prefetch, or does nothing), then the drain applies the
\* events of the channel from its head, in the order they were sent, and the
\* next tick is awaited only once the channel is empty; while a tick is in
\* progress (also while it is blocked in an await) no event is received and no
\* command changes the player.
C12_LoopAlternates ==
    [][/\ (pc = "drain" /\ pc' = "tick")
            => (rx = <<>> /\ UNCHANGED <<tracks, queue, queue_position, music_sink,
                                         next_track_task_handle>>)
       /\ rx' # rx
            => \/ /\ \E e \in Events : rx' = Append(rx, e)
                  /\ UNCHANGED <<pc, tracks, queue, queue_position, music_sink,
                                 next_track_task_handle>>
               \/ /\ pc = "drain"
                  /\ rx # <<>>
                  /\ rx' = Tail(rx)
                  /\ Applies(Head(rx), lastOp'.op)
       /\ InTick
            => /\ Len(rx') >= Len(rx)
               /\ UNCHANGED <<tracks, queue>>
               /\ music_sink'.volume = music_sink.volume
               /\ music_sink'.speed = music_sink.speed
               /\ music_sink'.paused = music_sink.paused
       /\ (pc = "tick" /\ pc' = "drain")
            => /\ UNCHANGED <<queue_position, music_sink>>
               /\ \/ UNCHANGED next_track_task_handle
                  \/ (next_track_task_handle = None
                      /\ next_track_task_handle'.st = "InFlight")
       /\ (pc = "tick" /\ pc' \in {"await_handle", "await_download"})
            => UNCHANGED <<queue_position, music_sink>>
       /\ (pc \in {"await_handle", "await_download"} /\ pc' # pc)
            => \/ pc' = "panicked"
               \/ /\ pc' = "drain"
                  /\ queue_position' = queue_position + 1
                  /\ Len(music_sink'.sources) = Len(music_sink.sources) + 1
       /\ pc = "tick" => pc' \in {"tick", "drain", "await_handle", "await_download", "panicked"}
       /\ pc = "drain"
            => /\ pc' \in {"drain", "tick", "quit"}
               /\ Len(music_sink'.sources) <= Len(music_sink.sources)
               /\ queue_position' <= queue_position
               /\ next_track_task_handle = None => next_track_task_handle' = None]_vars

\* The drain has applied a command and finds another one in the channel.
C12_Witness ==
    /\ pc = "drain"
    /\ lastOp.op \in MainEvents
    /\ rx # <<>>
    /\ sent >= 2

\* The commands the original statement of C13 speaks of, as steps record them.
DetachingOps == {"Shuffle", "LoadPlaylistOk", "LoadFavoritesOk", "NextTrack", "Previous"}

C14_OnePrefetch ==
    [][/\ (next_track_task_handle = None /\ next_track_task_handle' # None)
            => (pc = "tick" /\ music_sink.sources # <<>>
                /\ next_track_task_handle'.st = "InFlight")
       /\ (next_track_task_handle # None /\ next_track_task_handle' # None)
            => /\ next_track_task_handle'.id = next_track_task_handle.id
               /\ (next_track_task_handle'.st = next_track_task_handle.st
                   \/ next_track_task_handle.st = "InFlight")
       /\ (awaited = None /\ awaited' # None)
            => (awaited' = next_track_task_handle /\ next_track_task_handle' = None)
       /\ (awaited # None /\ awaited' # None) => awaited'.id = awaited.id
       /\ awaited # None => (pc = "await_handle" /\ next_track_task_handle = None)
       /\ (pc = "await_handle" /\ pc' # pc) => awaited' = None]_vars

\* A tick awaits the handle it has taken; the player holds none.
C14_Witness ==
    /\ pc = "await_handle"
    /\ awaited # None
    /\ awaited.st = "InFlight"
    /\ next_track_task_handle = None

\* C15: move_next replaces the sink by an empty one with the volume and the
\* speed of the sink it replaces, and leaves queue, queue_position, the track
\* list (and the prefetch handle) as they were.
C15_MoveNextFrame ==
    [][ReceivedStep("NextTrack") =>
          /\ music_sink'.sources = <<>>
          /\ music_sink'.volume = music_sink.volume
          /\ music_sink'.speed = music_sink.speed
          /\ UNCHANGED <<queue, queue_position, tracks, next_track_task_handle>>]_vars

\* Next was applied to a player past its first track whose volume had been changed.
C15_Witness ==
    /\ lastOp.op = "NextTrack"
    /\ lastOp.pos >= 1
    /\ music_sink.volume # 0
    /\ music_sink.sources = <<>>

\* C16: when the signing page lacks one of host, path, s, ts, direct_link
\* returns an error value and builds no URL.
C16_MissingFieldIsAnError ==
    (api.fn = "direct_link" /\ api.fetch = "Ok" /\ api.pc # "called"
       /\ <<>> \in {api.host, api.path, api.s, api.ts})
        => (api.pc = "returned" /\ ~api.result.ok /\ api.result.url = "")

\* A tick observes the sink non-empty.
TickObserves == pc = "tick" /\ pc' # pc /\ music_sink.sources # <<>>

\* C18: in a run without commands, a tick that observes the sink non-empty (and
\* has a next queue entry to look up) leaves a handle held for the track after
\* the one in the sink, started while that track was in the sink; the handle stays held until a tick awaits it,
\* and that tick resolves nothing synchronously; so a track is resolved inside a
\* tick only when it is the first or when no tick has observed the sink
\* non-empty since the feed before.
C18_Overlap ==
    [][(sent = 0) =>
          /\ (TickObserves /\ InRange(0))
               => /\ pc' = "drain"
                  /\ next_track_task_handle' # None
                  /\ next_track_task_handle'.id = next_track
                  /\ queue_position >= 1
                  /\ music_sink.sources = <<track_after_n(0 - 1)>>
          /\ (next_track_task_handle # None /\ ~TakeStep)
               => (next_track_task_handle' # None /\ pc' # "await_download")
          /\ (TakeStep /\ next_track_task_handle # None)
               => (pc' = "await_handle" /\ awaited'.id = next_track /\ loading' = 0)
          /\ (pc = "tick" /\ pc' = "await_download")
               => (next_track_task_handle = None /\ music_sink.sources = <<>>
                   /\ lastOp.op \in {"init_player", "DrainEmpty"})
          /\ (pc = "tick" /\ pc' = "await_download" /\ queue_position >= 1)
               => lastOp.op = "DrainEmpty"]_vars

\* Without any command, the second track was fed from a prefetch handle.
C18_Witness ==
    /\ sent = 0
    /\ lastOp.op = "FeedFromHandle"
    /\ lastOp.pos >= 1
    /\ pc = "drain"

\* C19: whenever a tick is about to evaluate next_track(), to resolve
\* synchronously or to start a prefetch, queue_position < len(queue).
C19_LookupsInRange ==
    (pc = "tick" /\ next_track_task_handle = None) => queue_position < Len(queue)

Succeeded(i) == api.fetches[i].log \in {<<"Ok">>, <<"SendErr", "Ok">>}

\* C17: every fetch of liked_tracks sends at most twice; and once liked_tracks
\* has returned for a listing, whatever the order the fetches completed in, it
\* has returned Ok with exactly the tracks whose fetch succeeded within the two
\* attempts, in the order of the listing: a track whose two attempts failed at
\* transport level is left out and the call does not fail.
C17_PartialSuccess ==
    /\ \A i \in 1..Len(api.fetches) : api.fetches[i].sends <= 2
    /\ (api.pc = "returned" /\ api.infos.ok) =>
        LET ids == api.infos.ids
            out == api.result.tracks
            place(id) == CHOOSE i \in 1..Len(ids) : ids[i] = id
        IN  /\ api.result.ok
            /\ Len(api.fetches) = Len(ids)
            /\ \A i \in 1..Len(ids) :
                 /\ api.fetches[i].track_id = ids[i]
                 /\ Succeeded(i) <=> \E k \in 1..Len(out) : out[k] = ids[i]
                 /\ api.fetches[i].log = <<"SendErr", "SendErr">>
                      => \A k \in 1..Len(out) : out[k] # ids[i]
            /\ \A k \in 1..Len(out) : \E i \in 1..Len(ids) : ids[i] = out[k]
            /\ \A j, k \in 1..Len(out) : j < k => place(out[j]) < place(out[k])

\* liked_tracks returned the second and third of three tracks: the third was
\* fetched first, then the first failed twice, then the second succeeded on its
\* second attempt.
C17_Witness ==
    /\ api.fn = "liked_tracks"
    /\ api.pc = "returned"
    /\ Len(api.fetches) = 3
    /\ api.fetches[1].log = <<"SendErr", "SendErr">>
    /\ api.fetches[2].log = <<"SendErr", "Ok">>
    /\ api.done = <<3, 1, 2>>
    /\ api.result.tracks = <<2, 3>>

\* A resolution, or the decoding of what it brought, has failed in a tick.
ResolutionFailed ==
    /\ pc = "panicked"
    /\ lastOp.op \notin {"TickLoadDirectlyOutOfRange", "TickScheduleOutOfRange"}

\* C21: in a run without commands, under fair scheduling of the loop, of the
\* background task and of the audio output, and unless a resolution fails, every
\* queue entry is eventually fed: the cursor reaches the end of the queue. The
\* cursor moves only by a feed, by one, and that feed appends
\* tracks[queue[queue_position]] to the empty sink, so the entries are fed in
\* queue order, once each; and while the awaited resolution is pending the tick
\* stays blocked and nothing is fed.
C21_Progress ==
    /\ [][/\ (queue_position' # queue_position
               \/ Len(music_sink'.sources) > Len(music_sink.sources))
              => /\ pc \in {"await_handle", "await_download"}
                 /\ music_sink.sources = <<>>
                 /\ queue_position < Len(queue)
                 /\ queue_position' = queue_position + 1
                 /\ music_sink'.sources = <<tracks[queue[queue_position + 1] + 1]>>
                 /\ lastOp'.fed = tracks[queue[queue_position + 1] + 1]
          /\ (pc = "await_handle" /\ awaited.st = "InFlight")
              => (pc' = pc /\ UNCHANGED <<queue_position, music_sink>>)]_vars
    /\ <>(ResolutionFailed \/ queue_position = Len(queue))

\* Without any command every entry of a queue of two or more has been fed, the
\* last one from a prefetch.
C21_Witness ==
    /\ sent = 0
    /\ Len(queue) >= 2
    /\ queue_position = Len(queue)
    /\ lastOp.op = "FeedFromHandle"
    /\ lastOp.fed = tracks[queue[Len(queue)] + 1]

\* C22: whenever Previous is about to be applied with queue_position >= 2,
\* queue[queue_position - 1] is the track most recently fed to the sink.
C22_PreviousFromCurrent ==
    (pc = "drain" /\ rx # <<>> /\ Head(rx) = "Previous" /\ queue_position >= 2)
        => lastOp.fed = tracks[queue[queue_position] + 1]

\* C23: a reload whose fetch of the list fails leaves the track list, the
\* queue, queue_position and the prefetch handle (and the sink) exactly as they
\* were.
C23_FailedReloadChangesNothing ==
    [][((ReceivedStep("LoadPlaylist") \/ ReceivedStep("LoadFavorites"))
          /\ lastOp'.op \in {"LoadPlaylistErr", "LoadFavoritesErr"})
         => UNCHANGED <<tracks, queue, queue_position, next_track_task_handle,
                        music_sink>>]_vars

\* A reload failed while the cursor was past the start and a handle was held.
C23_Witness ==
    /\ lastOp.op \in {"LoadPlaylistErr", "LoadFavoritesErr"}
    /\ lastOp.pos >= 1
    /\ queue_position = lastOp.pos
    /\ lastOp.held # "None"
    /\ next_track_task_handle # None

\* C24: a Next applied right after a Next, in the same event drain, changes
\* nothing: queue, queue_position, prefetch handle, the empty sink with its
\* volume and speed and the track list are as the first Next left them; and
\* after any Next the sink is empty and the cursor where it was, so the tick
\* that follows feeds the one track tracks[queue[queue_position]].
C24_NextIsIdempotent ==
    [][/\ (ReceivedStep("NextTrack") /\ lastOp.op = "NextTrack")
            => UNCHANGED <<tracks, queue, queue_position, next_track_task_handle,
                           music_sink>>
       /\ ReceivedStep("NextTrack")
            => (music_sink'.sources = <<>> /\ queue_position' = queue_position
                /\ pc' = "drain")]_vars

\* A Next has been applied, past the first track, and the next event of the same
\* drain is another Next.
C24_Witness ==
    /\ pc = "drain"
    /\ lastOp.op = "NextTrack"
    /\ lastOp.pos >= 1
    /\ rx # <<>>
    /\ Head(rx) = "NextTrack"
    /\ music_sink.sources = <<>>

\* C25: called with attempts = Some(0), fetch_track sends nothing and returns an
\* error value.
C25_ZeroBudgetReturns ==
    (api.fn = "fetch_track" /\ api.attempts = [some |-> TRUE, n |-> 0]
       /\ api.pc # "called")
        => (api.pc = "returned" /\ ~api.result.ok /\ api.sends = 0)
====
